---- MODULE Spec2Model ----
(***************************************************************************)
(* A model of src/dataset.py: the TextDataset class.                       *)
(*                                                                         *)
(* A string is a sequence of one-character strings.  A DataFrame is a      *)
(* sequence of rows [id, text, label]; a partition is a sequence of rows   *)
(* in the order train_test_split left them, and iloc is positional.        *)
(***************************************************************************)
EXTENDS Integers, Sequences, FiniteSets, TLC

VARIABLES
    phase,          \* "new" | "ready" | "failed": where the constructor got to
    text_data,      \* the DataFrame handed to __init__ / read by read_csv
    _vectorizer,    \* self._vectorizer
    _train_data,    \* self._train_data
    _val_data,      \* self._val_data
    _test_data,     \* self._test_data
    _stopwords,     \* self._stopwords
    _lookup_dict,   \* self._lookup_dict
    _target_split,  \* self._target_split
    _target_data,   \* self._target_data
    _target_size,   \* self._target_size
    ret,            \* what the last call that assigned anything returned or raised
    last_split,     \* history: the argument of the last set_split that returned
    gen,            \* the generator object of generate_batches
    workers,        \* the frames of concurrently running __getitem__ calls
    norm,           \* the frame of a caller applying __string_processing twice
    factory_args    \* the arguments TextVectorizer.from_dataframe was called with

vars == <<phase, text_data, _vectorizer, _train_data, _val_data, _test_data,
          _stopwords, _lookup_dict, _target_split, _target_data, _target_size,
          ret, last_split, gen, workers, norm, factory_args>>

\* The object's fields: everything reachable through self.
self_fields == <<_vectorizer, _train_data, _val_data, _test_data, _stopwords,
                 _lookup_dict, _target_split, _target_data, _target_size>>

(***************************************************************************)
(* Bounds of the model.                                                    *)
(***************************************************************************)
MaxRecords == 4      \* rows of the DataFrame given to the constructor
MaxBatch == 2        \* batch_size ranges over 1..MaxBatch
MaxStrLen == 4       \* length of the strings __string_processing is tried on
MaxFileRecords == 3  \* rows of the file load_dataset_and_make_vectorizer reads
MaxPassRecords == 5  \* rows of the DataFrame behind the passes of generate_batches
NumWorkers == 2      \* concurrent callers of __getitem__
MaxIndex == 2        \* __getitem__ is called with -MaxIndex..MaxIndex

(***************************************************************************)
(* Characters and strings.                                                 *)
(***************************************************************************)
Chars == {"A", "a", "b", ",", " ", "\t"}

WordChars == {"A", "a", "b"}        \* what \w matches
SpaceChars == {" ", "\t"}           \* what \s matches, and what split() cuts at

Strings(k) == UNION {[1..m -> Chars] : m \in 0..k}

\* str.lower on one character
LowerChar(c) == IF c = "A" THEN "a" ELSE c

\* string.lower()
lower(string) == [i \in 1..Len(string) |-> LowerChar(string[i])]

KeepChar(c) == c \in WordChars \/ c \in SpaceChars

\* re.sub(r"[^\w\s]", '', string)
re_sub(string) == SelectSeq(string, KeepChar)

\* string.split(): the maximal runs of non-whitespace characters
RECURSIVE split_from(_, _, _)
split_from(string, i, word) ==
    IF i > Len(string)
    THEN IF word = <<>> THEN <<>> ELSE <<word>>
    ELSE IF string[i] \in SpaceChars
         THEN IF word = <<>>
              THEN split_from(string, i + 1, <<>>)
              ELSE <<word>> \o split_from(string, i + 1, <<>>)
         ELSE split_from(string, i + 1, Append(word, string[i]))

str_split(string) == split_from(string, 1, <<>>)

\* ' '.join(words)
RECURSIVE join(_)
join(words) ==
    IF words = <<>> THEN <<>>
    ELSE IF Len(words) = 1 THEN words[1]
    ELSE words[1] \o <<" ">> \o join(Tail(words))

NotStopword(w) == w \notin _stopwords

\* [w for w in string.split() if not w in self._stopwords]
filter_stopwords(words) == SelectSeq(words, NotStopword)

\* A slip of __string_processing: the stopwords are dropped before the
\* punctuation is deleted.
string_processing_filter_first(string) ==
    re_sub(join(filter_stopwords(str_split(lower(string)))))

\* TextDataset.__string_processing
string_processing(string) ==
    join(filter_stopwords(str_split(re_sub(lower(string)))))

(***************************************************************************)
(* Rows and DataFrames.                                                    *)
(***************************************************************************)
CorpusTexts == << <<"A", " ", "b">>, <<"a", ",", "b">>, <<"b", "\t", "a">> >>
CorpusLabels == <<"pos", "neg", "neu">>

\* The DataFrame of n rows the constructor is tried on.
Corpus(n) ==
    [i \in 1..n |-> [id |-> i,
                     text |-> CorpusTexts[((i - 1) % Len(CorpusTexts)) + 1],
                     label |-> CorpusLabels[((i - 1) % Len(CorpusLabels)) + 1]]]

Ids(data) == {data[i].id : i \in 1..Len(data)}

Perms(n) == {p \in [1..n -> 1..n] : \A i, j \in 1..n : p[i] = p[j] => i = j}
Rotations(n) == {[i \in 1..n |-> ((i + k - 1) % n) + 1] : k \in 0..(n - 1)}
Identity(n) == [i \in 1..n |-> i]

Splits == {"train", "val", "test"}
SplitNames == Splits \cup {"dev"}
Languages == {"english"}
Devices == {"cpu"}
Indices == (0 - MaxIndex)..MaxIndex

NoData == <<>>
NoVectorizer == [mode |-> "", seq_len |-> 0, label_vocab |-> <<>>]

(***************************************************************************)
(* The vectorizer (vectorizer.py is not part of src/): a fixed-length      *)
(* numeric vector per text and an integer per known label.                 *)
(***************************************************************************)
CharCode(c) ==
    CASE c = "a" -> 1 [] c = "b" -> 2 [] c = "A" -> 3 [] c = "," -> 4
      [] c = " " -> 5 [] OTHER -> 6

RECURSIVE distinct_labels(_, _)
distinct_labels(data, i) ==
    IF i = 0 THEN <<>>
    ELSE LET before == distinct_labels(data, i - 1)
         IN  IF \E k \in 1..Len(before) : before[k] = data[i].label
             THEN before
             ELSE Append(before, data[i].label)

\* TextVectorizer.from_dataframe(text_data, mode=..., seq_len=...)
from_dataframe(data, mode, seq_len) ==
    [mode |-> mode, seq_len |-> seq_len,
     label_vocab |-> distinct_labels(data, Len(data))]

\* self._vectorizer.vectorize(row_text)
vectorize(vectorizer, text) ==
    [i \in 1..vectorizer.seq_len |->
        IF i <= Len(text) THEN CharCode(text[i]) ELSE 0]

has_token(vectorizer, label) ==
    \E k \in 1..Len(vectorizer.label_vocab) : vectorizer.label_vocab[k] = label

\* self._vectorizer.label_vocab.lookup_token(row.label), for a known label
lookup_token(vectorizer, label) ==
    CHOOSE k \in 1..Len(vectorizer.label_vocab) : vectorizer.label_vocab[k] = label

(***************************************************************************)
(* The sequence-length bound of load_dataset_and_make_vectorizer.          *)
(***************************************************************************)
LenThreshold == 1000
LenCap == 359

NaN == 0 - 1   \* stands for the float nan: every comparison with it is false

RECURSIVE max_len(_, _)
\* text_data.text.str.len().max(): nan for an empty frame
max_len(data, i) ==
    IF i = 0 THEN NaN
    ELSE LET rest == max_len(data, i - 1)
         IN  IF rest = NaN \/ Len(data[i].text) > rest
             THEN Len(data[i].text) ELSE rest

\* A slip of the guard: >= where the code has >.
seq_len_of_inclusive(data) ==
    LET seq_len == max_len(data, Len(data))
    IN  IF seq_len # NaN /\ seq_len >= LenThreshold THEN LenCap ELSE seq_len

\* seq_len = ...max(); if seq_len > 1000: seq_len = 359
seq_len_of(data) ==
    LET seq_len == max_len(data, Len(data))
    IN  IF seq_len # NaN /\ seq_len > LenThreshold THEN LenCap ELSE seq_len

\* The vectorizer the constructor is tried with: the one
\* load_dataset_and_make_vectorizer builds from the same DataFrame.
Vectorizers(data) ==
    {from_dataframe(data, "onehot", seq_len_of(data))}

\* The same, and one built from the first row only: its vocabulary lacks
\* the labels of the other rows.
AnyVectorizers(data) ==
    Vectorizers(data) \cup
    {from_dataframe(SubSeq(data, 1, IF Len(data) = 0 THEN 0 ELSE 1), "onehot",
                    seq_len_of(data))}

\* stopwords.words(language)
stopwords_words(language) == {<<"a">>, <<"t", "h", "e">>}

(***************************************************************************)
(* sklearn.model_selection.train_test_split(data, test_size=num/den):      *)
(* n_test = ceil(test_size * n), n_train = n - n_test, an error when        *)
(* either part would be empty; the rows are dealt out by a permutation p.  *)
(***************************************************************************)
TestNum == 1
TestDen == 5
ValNum == 1
ValDen == 4

CeilDiv(a, b) == (a + b - 1) \div b

n_test_of(n, num, den) == CeilDiv(n * num, den)

\* A slip of train_test_split's use: the test rows are not taken out of the
\* training rows.
train_test_split_overlap(data, num, den, p) ==
    LET n == Len(data)
        n_test == n_test_of(n, num, den)
    IN  IF n = 0 \/ n - n_test = 0
        THEN [ok |-> FALSE, train |-> NoData, test |-> NoData]
        ELSE [ok |-> TRUE,
              train |-> [i \in 1..(n - n_test) |-> data[p[i]]],
              test |-> [i \in 1..n_test |-> data[p[i]]]]

train_test_split(data, num, den, p) ==
    LET n == Len(data)
        n_test == n_test_of(n, num, den)
    IN  IF n = 0 \/ n - n_test = 0
        THEN [ok |-> FALSE, train |-> NoData, test |-> NoData]
        ELSE [ok |-> TRUE,
              train |-> [i \in 1..(n - n_test) |-> data[p[n_test + i]]],
              test |-> [i \in 1..n_test |-> data[p[i]]]]

(***************************************************************************)
(* The object: construction, set_split, __len__, __getitem__.              *)
(***************************************************************************)
NoGen == [pc |-> "none", batch_size |-> 0, shuffle |-> FALSE,
          drop_last |-> FALSE, device |-> "", order |-> <<>>, pos |-> 0,
          split0 |-> "", size0 |-> 0, out |-> <<>>]
NoRet == [op |-> "", status |-> ""]
WorkerIds == 1..NumWorkers
NoFrame == [pc |-> "idle", index |-> 0, row |-> <<>>, row_text |-> <<>>,
            text_vector |-> <<>>, result |-> NoRet]
NoWorkers == [w \in WorkerIds |-> NoFrame]
NoNorm == [pc |-> "idle", string |-> <<>>, once |-> <<>>, twice |-> <<>>]
NoArgs == [called |-> FALSE, mode |-> "", seq_len |-> 0]

\* The fields of a constructed object, after lines 19-32: the two splits by
\* the permutations p1 and p2, the stopwords, the lookup table.
constructed(data, vectorizer, language, p1, p2) ==
    LET first == train_test_split(data, TestNum, TestDen, p1)
        second == train_test_split(first.train, ValNum, ValDen, p2)
    IN  [ok |-> first.ok /\ second.ok,
         vectorizer |-> vectorizer,
         train |-> second.train,
         val |-> second.test,
         test |-> first.test,
         stopwords |-> stopwords_words(language),
         lookup |-> [k \in Splits |->
                        CASE k = "train" -> <<second.train, Len(second.train)>>
                          [] k = "val" -> <<second.test, Len(second.test)>>
                          [] k = "test" -> <<first.test, Len(first.test)>>]]

\* The number of rows the first split leaves for the second.
n_first_train(data) ==
    Len(data) - (IF Len(data) = 0 THEN 0
                 ELSE n_test_of(Len(data), TestNum, TestDen))

\* The assignments of a successful __init__, set_split('train') included.
install(c) ==
    /\ _vectorizer' = c.vectorizer
    /\ _train_data' = c.train
    /\ _val_data' = c.val
    /\ _test_data' = c.test
    /\ _stopwords' = c.stopwords
    /\ _lookup_dict' = c.lookup
    /\ _target_split' = "train"
    /\ _target_data' = c.lookup["train"][1]
    /\ _target_size' = c.lookup["train"][2]
    /\ last_split' = "train"

\* TextDataset.__init__: a train_test_split that would leave a part empty
\* raises ValueError, a missing stopword resource raises LookupError, and
\* no object results.
init(vectorizer, language, available, p1, p2) ==
    LET c == constructed(text_data, vectorizer, language, p1, p2)
    IN  /\ phase = "new"
        /\ IF c.ok /\ available
           THEN /\ phase' = "ready"
                /\ install(c)
                /\ ret' = [op |-> "init", status |-> "ok"]
           ELSE /\ phase' = "failed"
                /\ ret' = [op |-> "init",
                           status |-> IF c.ok THEN "LookupError" ELSE "ValueError"]
                /\ UNCHANGED <<self_fields, last_split>>
        /\ UNCHANGED <<text_data, gen, workers, norm>>

Construct ==
    /\ phase = "new"
    /\ \E vectorizer \in Vectorizers(text_data), language \in Languages,
          available \in BOOLEAN,
          p1 \in Perms(Len(text_data)), p2 \in Perms(n_first_train(text_data)) :
            init(vectorizer, language, available, p1, p2)
    /\ UNCHANGED factory_args

\* The state a successful __init__ leaves: what install assigns.
installed(c) ==
    /\ phase = "ready"
    /\ _vectorizer = c.vectorizer
    /\ _train_data = c.train
    /\ _val_data = c.val
    /\ _test_data = c.test
    /\ _stopwords = c.stopwords
    /\ _lookup_dict = c.lookup
    /\ _target_split = "train"
    /\ _target_data = c.lookup["train"][1]
    /\ _target_size = c.lookup["train"][2]
    /\ last_split = "train"
    /\ ret = [op |-> "init", status |-> "ok"]

\* A slip of set_split: an unknown name falls back to the train partition.
set_split_default(split) ==
    /\ phase = "ready"
    /\ _target_split' = split
    /\ LET entry == IF split \in DOMAIN _lookup_dict
                    THEN _lookup_dict[split] ELSE _lookup_dict["train"]
       IN  /\ _target_data' = entry[1]
           /\ _target_size' = entry[2]
    /\ last_split' = IF split \in DOMAIN _lookup_dict THEN split ELSE "train"
    /\ ret' = [op |-> "set_split", arg |-> split, status |-> "ok"]
    /\ UNCHANGED <<phase, text_data, _vectorizer, _train_data, _val_data,
                   _test_data, _stopwords, _lookup_dict, gen, workers, norm,
                   factory_args>>

\* A slip of set_split: the size is taken from the train entry.
set_split_train_size(split) ==
    /\ phase = "ready"
    /\ _target_split' = split
    /\ IF split \in DOMAIN _lookup_dict
       THEN /\ _target_data' = _lookup_dict[split][1]
            /\ _target_size' = _lookup_dict["train"][2]
            /\ last_split' = split
            /\ ret' = [op |-> "set_split", arg |-> split, status |-> "ok"]
       ELSE /\ UNCHANGED <<_target_data, _target_size, last_split>>
            /\ ret' = [op |-> "set_split", arg |-> split, status |-> "KeyError"]
    /\ UNCHANGED <<phase, text_data, _vectorizer, _train_data, _val_data,
                   _test_data, _stopwords, _lookup_dict, gen, workers, norm,
                   factory_args>>

\* TextDataset.set_split: line 101 stores the name, then line 102 looks it
\* up; an unknown name raises KeyError there, after line 101 has run.
set_split(split) ==
    /\ phase = "ready"
    /\ _target_split' = split
    /\ IF split \in DOMAIN _lookup_dict
       THEN /\ _target_data' = _lookup_dict[split][1]
            /\ _target_size' = _lookup_dict[split][2]
            /\ last_split' = split
            /\ ret' = [op |-> "set_split", arg |-> split, status |-> "ok"]
       ELSE /\ UNCHANGED <<_target_data, _target_size, last_split>>
            /\ ret' = [op |-> "set_split", arg |-> split, status |-> "KeyError"]
    /\ UNCHANGED <<phase, text_data, _vectorizer, _train_data, _val_data,
                   _test_data, _stopwords, _lookup_dict, gen, workers, norm,
                   factory_args>>

SetSplit == \E split \in SplitNames : set_split(split)

\* TextDataset.__len__: what the call returns
len_self == _target_size

\* A call of __len__: it assigns nothing; len_self is its result.
Length ==
    /\ phase = "ready"
    /\ UNCHANGED vars

\* A slip of iloc: the position is taken modulo the length, nothing raises.
iloc_wrap(data, index) ==
    IF Len(data) = 0 THEN [status |-> "IndexError", row |-> <<>>]
    ELSE [status |-> "ok", row |-> data[(index % Len(data)) + 1]]

\* DataFrame.iloc[index] for an integer: positions -n..n-1 are valid, a
\* negative one counts from the end, any other raises IndexError.
iloc(data, index) ==
    IF index >= Len(data) \/ index < 0 - Len(data)
    THEN [status |-> "IndexError", row |-> <<>>]
    ELSE [status |-> "ok",
          row |-> data[(IF index < 0 THEN index + Len(data) ELSE index) + 1]]

\* What line 140 returns for `row`, or the KeyError of line 138 for a label
\* the vocabulary lacks.  `row` names the row that was read.
item_of(index, row, text_vector) ==
    IF ~has_token(_vectorizer, row.label)
    THEN [op |-> "getitem", arg |-> index, status |-> "KeyError"]
    ELSE [op |-> "getitem", arg |-> index, status |-> "ok", row |-> row.id,
          val |-> [x_data |-> text_vector,
                   y_target |-> lookup_token(_vectorizer, row.label)]]

\* TextDataset.__getitem__, run alone (lines 135-140): what the call
\* returns or raises.
getitem(index) ==
    LET got == iloc(_target_data, index)
    IN  IF got.status # "ok"
        THEN [op |-> "getitem", arg |-> index, status |-> got.status]
        ELSE item_of(index, got.row,
                     vectorize(_vectorizer, string_processing(got.row.text)))

\* A call of __getitem__ with any index: it assigns nothing; getitem(index)
\* is its result.
GetItem ==
    /\ phase = "ready"
    /\ UNCHANGED vars

(***************************************************************************)
(* generate_batches: a generator over a DataLoader on self.  Nothing runs  *)
(* until the first next(); the sampler then reads len(self) once and draws *)
(* the order of the pass; every item of every batch is fetched through     *)
(* self[index] when its batch is asked for.                                *)
(***************************************************************************)
Min(a, b) == IF a < b THEN a ELSE b

\* A slip of the batch sampler: drop_last is ignored.
batch_indices_keep_last(order, pos, batch_size, drop_last) ==
    SubSeq(order, pos + 1, pos + Min(batch_size, Len(order) - pos))

\* BatchSampler: the next batch_size indices of the pass, fewer at its end,
\* none when the pass is over or when drop_last discards a short batch.
batch_indices(order, pos, batch_size, drop_last) ==
    LET k == Min(batch_size, Len(order) - pos)
    IN  IF drop_last /\ k < batch_size THEN <<>>
        ELSE SubSeq(order, pos + 1, pos + k)

\* RandomSampler (shuffle) or SequentialSampler over range(n), by permutation p
sampler_order(n, shuffle, p) ==
    [i \in 1..n |-> IF shuffle THEN p[i] - 1 ELSE i - 1]

\* [self.dataset[idx] for idx in batch]
fetch(indices) == [i \in 1..Len(indices) |-> getitem(indices[i])]

FirstFailure(items) ==
    CHOOSE i \in 1..Len(items) :
        /\ items[i].status # "ok"
        /\ \A j \in 1..(i - 1) : items[j].status = "ok"

\* default collate, then .to(device) on every entry (lines 64-68)
collate(items, device) ==
    [x_data |-> [i \in 1..Len(items) |-> items[i].val.x_data],
     y_target |-> [i \in 1..Len(items) |-> items[i].val.y_target],
     device |-> device]

\* TextDataset.generate_batches(...): the call only makes the generator.
generate_batches(batch_size, shuffle, drop_last, device) ==
    /\ phase = "ready"
    /\ gen' = [NoGen EXCEPT !.pc = "created", !.batch_size = batch_size,
                            !.shuffle = shuffle, !.drop_last = drop_last,
                            !.device = device]
    /\ ret' = [op |-> "generate_batches", status |-> "ok"]
    /\ UNCHANGED <<phase, text_data, self_fields, last_split, workers, norm,
                   factory_args>>

GenerateBatches ==
    \E batch_size \in 1..MaxBatch, shuffle \in BOOLEAN, drop_last \in BOOLEAN,
       device \in Devices :
        generate_batches(batch_size, shuffle, drop_last, device)

\* next() on the generator, with p the permutation a starting pass draws.
\* gen.out keeps, per batch yielded, the index and the row of every item
\* and the split that was selected when it was read.
next_batch(p) ==
    LET g == IF gen.pc = "created"
             THEN [gen EXCEPT !.pc = "running",
                              !.order = sampler_order(len_self, gen.shuffle, p),
                              !.split0 = last_split,
                              !.size0 = len_self]
             ELSE gen
        indices == batch_indices(g.order, g.pos, g.batch_size, g.drop_last)
        items == fetch(indices)
    IN  /\ phase = "ready"
        /\ gen.pc # "none"
        /\ IF gen.pc \in {"done", "failed"} \/ indices = <<>>
           THEN /\ gen' = IF gen.pc \in {"done", "failed"} THEN gen
                          ELSE [g EXCEPT !.pc = "done"]
                /\ ret' = [op |-> "next", status |-> "StopIteration"]
           ELSE IF \E i \in 1..Len(items) : items[i].status # "ok"
           THEN /\ gen' = [g EXCEPT !.pc = "failed"]
                /\ ret' = [op |-> "next",
                           status |-> items[FirstFailure(items)].status]
           ELSE /\ gen' = [g EXCEPT
                             !.pos = g.pos + Len(indices),
                             !.out = Append(g.out,
                                [i \in 1..Len(items) |->
                                    [index |-> indices[i], row |-> items[i].row,
                                     split |-> last_split]])]
                /\ ret' = [op |-> "next", status |-> "ok",
                           val |-> collate(items, g.device)]
        /\ UNCHANGED <<phase, text_data, self_fields, last_split, workers,
                       norm, factory_args>>

NextBatch ==
    \E p \in (IF gen.pc = "created" /\ gen.shuffle
              THEN Perms(len_self) ELSE {<<>>}) : next_batch(p)

(***************************************************************************)
(* The object's life: one construction, then any calls.                    *)
(***************************************************************************)
Blank ==
    /\ _vectorizer = NoVectorizer
    /\ _train_data = NoData
    /\ _val_data = NoData
    /\ _test_data = NoData
    /\ _stopwords = {}
    /\ _lookup_dict = <<>>
    /\ _target_split = ""
    /\ _target_data = NoData
    /\ _target_size = 0
    /\ ret = NoRet
    /\ last_split = ""

Init ==
    /\ phase = "new"
    /\ text_data \in {Corpus(n) : n \in 0..MaxRecords}
    /\ Blank
    /\ gen = NoGen
    /\ workers = NoWorkers
    /\ norm = NoNorm
    /\ factory_args = NoArgs

Next ==
    \/ Construct
    \/ SetSplit
    \/ Length
    \/ GetItem
    \/ GenerateBatches
    \/ NextBatch

Spec == Init /\ [][Next]_vars

(***************************************************************************)
(* Passes of generate_batches over constructed objects whose two splits    *)
(* drew rotations.                                                         *)
(***************************************************************************)
InitBatches ==
    /\ text_data \in {Corpus(n) : n \in 3..MaxPassRecords}
    /\ \E vectorizer \in Vectorizers(text_data), language \in Languages,
          p1 \in Rotations(Len(text_data)),
          p2 \in Rotations(n_first_train(text_data)) :
            installed(constructed(text_data, vectorizer, language, p1, p2))
    /\ gen = NoGen
    /\ workers = NoWorkers
    /\ norm = NoNorm
    /\ factory_args = NoArgs

NextBatches ==
    \/ SetSplit
    \/ GenerateBatches
    \/ NextBatch

SpecBatches == InitBatches /\ [][NextBatches]_vars

(***************************************************************************)
(* __getitem__ line by line, for callers that run concurrently (an         *)
(* external dataloading layer's workers), each with its own frame.         *)
(***************************************************************************)
Busy(w) == workers[w].pc \notin {"idle", "returned"}

\* A worker enters __getitem__(index); the callers' indices are disjoint.
getitem_call(w, index) ==
    /\ workers[w].pc = "idle"
    /\ \A v \in WorkerIds \ {w} :
          workers[v].pc = "idle" \/ workers[v].index # index
    /\ workers' = [workers EXCEPT ![w] = [NoFrame EXCEPT !.pc = "l135",
                                                          !.index = index]]
    /\ UNCHANGED <<phase, text_data, self_fields, ret, last_split, gen, norm,
                   factory_args>>

\* A slip of line 135: the row read is kept on the object, as its data.
getitem_135_on_self(w) ==
    LET got == iloc(_target_data, workers[w].index)
    IN  /\ workers[w].pc = "l135"
        /\ IF got.status # "ok"
           THEN /\ workers' = [workers EXCEPT ![w].pc = "returned",
                     ![w].result = [op |-> "getitem", arg |-> workers[w].index,
                                    status |-> got.status]]
                /\ UNCHANGED <<_target_data, _target_size>>
           ELSE /\ workers' = [workers EXCEPT ![w].pc = "l136",
                                               ![w].row = got.row]
                /\ _target_data' = <<got.row>>
                /\ _target_size' = 1
        /\ UNCHANGED <<phase, text_data, _vectorizer, _train_data, _val_data,
                       _test_data, _stopwords, _lookup_dict, _target_split,
                       ret, last_split, gen, norm, factory_args>>

\* line 135: row = self._target_data.iloc[index]
getitem_135(w) ==
    LET got == iloc(_target_data, workers[w].index)
    IN  /\ workers[w].pc = "l135"
        /\ IF got.status # "ok"
           THEN workers' = [workers EXCEPT ![w].pc = "returned",
                     ![w].result = [op |-> "getitem", arg |-> workers[w].index,
                                    status |-> got.status]]
           ELSE workers' = [workers EXCEPT ![w].pc = "l136",
                                           ![w].row = got.row]
        /\ UNCHANGED <<phase, text_data, self_fields, ret, last_split, gen,
                       norm, factory_args>>

\* line 136: row_text = self.__string_processing(row.text)
getitem_136(w) ==
    /\ workers[w].pc = "l136"
    /\ workers' = [workers EXCEPT ![w].pc = "l137",
                      ![w].row_text = string_processing(workers[w].row.text)]
    /\ UNCHANGED <<phase, text_data, self_fields, ret, last_split, gen, norm,
                   factory_args>>

\* line 137: text_vector = self._vectorizer.vectorize(row_text)
getitem_137(w) ==
    /\ workers[w].pc = "l137"
    /\ workers' = [workers EXCEPT ![w].pc = "l138",
                      ![w].text_vector = vectorize(_vectorizer,
                                                   workers[w].row_text)]
    /\ UNCHANGED <<phase, text_data, self_fields, ret, last_split, gen, norm,
                   factory_args>>

\* lines 138-140: the label's index, and the item returned
getitem_138(w) ==
    /\ workers[w].pc = "l138"
    /\ workers' = [workers EXCEPT ![w].pc = "returned",
                      ![w].result = item_of(workers[w].index, workers[w].row,
                                            workers[w].text_vector)]
    /\ UNCHANGED <<phase, text_data, self_fields, ret, last_split, gen, norm,
                   factory_args>>

\* The caller takes the result; the frame is gone.
getitem_done(w) ==
    /\ workers[w].pc = "returned"
    /\ workers' = [workers EXCEPT ![w] = NoFrame]
    /\ UNCHANGED <<phase, text_data, self_fields, ret, last_split, gen, norm,
                   factory_args>>

\* One object (both splits drew the identity), any split selected by a
\* set_split that returned, either vectorizer.
InitWorkers ==
    /\ text_data = Corpus(MaxRecords)
    /\ \E vectorizer \in AnyVectorizers(text_data), language \in Languages,
          split \in Splits :
          LET c == constructed(text_data, vectorizer, language,
                               Identity(Len(text_data)),
                               Identity(n_first_train(text_data)))
          IN  /\ phase = "ready"
              /\ _vectorizer = c.vectorizer
              /\ _train_data = c.train
              /\ _val_data = c.val
              /\ _test_data = c.test
              /\ _stopwords = c.stopwords
              /\ _lookup_dict = c.lookup
              /\ _target_split = split
              /\ _target_data = c.lookup[split][1]
              /\ _target_size = c.lookup[split][2]
              /\ last_split = split
              /\ ret = [op |-> "set_split", arg |-> split, status |-> "ok"]
    /\ gen = NoGen
    /\ workers = NoWorkers
    /\ norm = NoNorm
    /\ factory_args = NoArgs

NextWorkers ==
    \E w \in WorkerIds :
        \/ \E index \in Indices : getitem_call(w, index)
        \/ getitem_135(w)
        \/ getitem_136(w)
        \/ getitem_137(w)
        \/ getitem_138(w)
        \/ getitem_done(w)

SpecWorkers == InitWorkers /\ [][NextWorkers]_vars

(***************************************************************************)
(* __string_processing applied to a string, then to its own result.        *)
(***************************************************************************)
StopCandidates == {<<"a">>, <<"a", "b">>, <<"A">>}

normalize_once ==
    /\ norm.pc = "start"
    /\ norm' = [norm EXCEPT !.pc = "once",
                            !.once = string_processing(norm.string)]
    /\ UNCHANGED <<phase, text_data, self_fields, ret, last_split, gen,
                   workers, factory_args>>

normalize_twice ==
    /\ norm.pc = "once"
    /\ norm' = [norm EXCEPT !.pc = "twice",
                            !.twice = string_processing(norm.once)]
    /\ UNCHANGED <<phase, text_data, self_fields, ret, last_split, gen,
                   workers, factory_args>>

\* An object whose language has any of the stopword lists, and any string.
InitNorm ==
    /\ text_data = Corpus(MaxRecords)
    /\ \E vectorizer \in Vectorizers(text_data), language \in Languages :
          LET c == constructed(text_data, vectorizer, language,
                               Identity(Len(text_data)),
                               Identity(n_first_train(text_data)))
          IN  /\ phase = "ready"
              /\ _vectorizer = c.vectorizer
              /\ _train_data = c.train
              /\ _val_data = c.val
              /\ _test_data = c.test
              /\ _lookup_dict = c.lookup
              /\ _target_split = "train"
              /\ _target_data = c.lookup["train"][1]
              /\ _target_size = c.lookup["train"][2]
              /\ last_split = "train"
              /\ ret = [op |-> "init", status |-> "ok"]
    /\ _stopwords \in SUBSET StopCandidates
    /\ norm \in {[NoNorm EXCEPT !.pc = "start", !.string = s] :
                    s \in Strings(MaxStrLen)}
    /\ gen = NoGen
    /\ workers = NoWorkers
    /\ factory_args = NoArgs

NextNorm == normalize_once \/ normalize_twice

SpecNorm == InitNorm /\ [][NextNorm]_vars

(***************************************************************************)
(* load_dataset_and_make_vectorizer on files whose texts have the lengths  *)
(* around the guard of line 84.                                            *)
(***************************************************************************)
TextLengths == {1, LenCap, LenThreshold, LenThreshold + 1}

TextOfLength(k) == [i \in 1..k |-> "a"]

\* The files: every row's text of one of the lengths.
Files ==
    UNION {{[i \in 1..n |-> [id |-> i, text |-> TextOfLength(lens[i]),
                             label |-> CorpusLabels[((i - 1) % Len(CorpusLabels)) + 1]]] :
              lens \in [1..n -> TextLengths]} : n \in 0..MaxFileRecords}

Modes == {"onehot"}

\* TextDataset.load_dataset_and_make_vectorizer: text_data is what read_csv
\* returned; the factory is called, then cls(text_data, vectorizer).
load_dataset_and_make_vectorizer(vectorizer_mode, language, available, p1, p2) ==
    LET seq_len == seq_len_of(text_data)
    IN  /\ factory_args' = [called |-> TRUE, mode |-> vectorizer_mode,
                            seq_len |-> seq_len]
        /\ init(from_dataframe(text_data, vectorizer_mode, seq_len),
                language, available, p1, p2)

Load ==
    /\ phase = "new"
    /\ \E vectorizer_mode \in Modes, language \in Languages,
          available \in BOOLEAN,
          p1 \in Perms(Len(text_data)), p2 \in Perms(n_first_train(text_data)) :
            load_dataset_and_make_vectorizer(vectorizer_mode, language,
                                             available, p1, p2)

InitLoad ==
    /\ phase = "new"
    /\ text_data \in Files
    /\ Blank
    /\ gen = NoGen
    /\ workers = NoWorkers
    /\ norm = NoNorm
    /\ factory_args = NoArgs

\* After the load the object is used like any other.
NextLoad ==
    \/ Load
    \/ SetSplit
    \/ Length

SpecLoad == InitLoad /\ [][NextLoad]_vars

(***************************************************************************)
(* The properties.                                                         *)
(***************************************************************************)
\* The train_data, val_data and test_data properties, by split name.
partition(name) ==
    CASE name = "train" -> _train_data
      [] name = "val" -> _val_data
      [] name = "test" -> _test_data

Partitioned ==
    /\ Ids(_train_data) \cap Ids(_val_data) = {}
    /\ Ids(_train_data) \cap Ids(_test_data) = {}
    /\ Ids(_val_data) \cap Ids(_test_data) = {}
    /\ Ids(_train_data) \cup Ids(_val_data) \cup Ids(_test_data) = Ids(text_data)
    /\ Len(_train_data) + Len(_val_data) + Len(_test_data) = Len(text_data)
    /\ \A name \in Splits :
          /\ Cardinality(Ids(partition(name))) = Len(partition(name))
          /\ \A i \in 1..Len(partition(name)) :
                partition(name)[i] = text_data[partition(name)[i].id]

\* C1: in every constructed object the three partitions are pairwise
\* disjoint, every input row is in exactly one of them and their lengths
\* sum to the input's; no call after construction changes a partition.
C1_PartitionFixed ==
    /\ [](phase = "ready" => Partitioned)
    /\ [][phase = "ready" =>
            UNCHANGED <<_train_data, _val_data, _test_data, text_data>>]_vars

\* C1 witness: an object over four rows after a finished pass and a failed
\* set_split.
C1_Witness ==
    /\ phase = "ready"
    /\ Len(text_data) = 4
    /\ Len(_train_data) = 2
    /\ gen.pc = "done"
    /\ Len(gen.out) = 2
    /\ _target_split = "dev"

\* C2: construction selects train; __len__ and __getitem__ observe the
\* partition named by the last set_split that returned.
C2_ActiveSplit ==
    phase = "ready" =>
        /\ last_split \in Splits
        /\ (ret.op = "init" => _target_split = "train" /\ last_split = "train")
        /\ len_self = Len(partition(last_split))
        /\ \A index \in Indices :
              getitem(index).status = "ok" =>
                 getitem(index).row = iloc(partition(last_split), index).row.id

\* C2 witness: val was selected, then an unknown name was refused.
C2_Witness ==
    /\ phase = "ready"
    /\ last_split = "val"
    /\ _target_split = "dev"
    /\ Len(_train_data) = 2
    /\ len_self = 1
    /\ getitem(0).status = "ok"
    /\ getitem(0).row = _val_data[1].id

\* C3: set_split with a name outside {train, val, test} raises (KeyError)
\* and leaves the selected data and size as they were.
C3_InvalidSplitFails ==
    [][(ret'.op = "set_split" /\ ret'.arg \notin Splits) =>
          /\ ret'.status = "KeyError"
          /\ UNCHANGED <<_target_data, _target_size>>]_vars

\* C3 witness: the unknown name was refused while val stayed selected.
C3_Witness ==
    /\ ret.op = "set_split"
    /\ ret.arg = "dev"
    /\ ret.status = "KeyError"
    /\ _target_data = _val_data
    /\ Len(_val_data) < Len(_train_data)

\* C4 as claimed: __getitem__ raises IndexError for every index outside
\* 0 <= index < size(), the negative ones included.
C4_OutOfRangeFails ==
    phase = "ready" =>
        \A index \in Indices :
            (index < 0 \/ index >= len_self) =>
                getitem(index).status = "IndexError"

\* C4 amended: __getitem__ raises IndexError exactly for index >= size()
\* and index < -size(); 0 <= index < size() reads the index-th row of the
\* selected partition and -size() <= index < 0 the row size()+index.
C4_IndexErrorOutsideSignedRange ==
    phase = "ready" =>
        \A index \in Indices :
            LET r == getitem(index)
            IN  /\ (r.status = "IndexError") <=>
                      (index >= len_self \/ index < 0 - len_self)
                /\ (0 <= index /\ index < len_self) =>
                      /\ r.status \in {"ok", "KeyError"}
                      /\ r.status = "ok" => r.row = _target_data[index + 1].id
                /\ (0 - len_self <= index /\ index < 0) =>
                      /\ r.status \in {"ok", "KeyError"}
                      /\ r.status = "ok" =>
                            r.row = _target_data[len_self + index + 1].id

\* C4 witness: on a partition of one row, -1 reads it and -2 and 1 raise.
C4_Witness ==
    /\ phase = "ready"
    /\ len_self = 1
    /\ getitem(0 - 1).status = "ok"
    /\ getitem(0 - 1).row = _target_data[1].id
    /\ getitem(0 - 2).status = "IndexError"
    /\ getitem(1).status = "IndexError"

\* C9 as claimed: in every state of a constructed object the recorded name
\* is a split name and the selected data and size are its entry.
C9_TargetConsistent ==
    phase = "ready" =>
        /\ _target_split \in Splits
        /\ _target_data = _lookup_dict[_target_split][1]
        /\ _target_size = _lookup_dict[_target_split][2]

\* The places (batch, position) of the items a pass has yielded.
Places == {<<i, j>> : i \in 1..Len(gen.out), j \in 1..MaxBatch}
Yielded == {pl \in Places : pl[2] <= Len(gen.out[pl[1]])}
ItemAt(pl) == gen.out[pl[1]][pl[2]]

\* Every item of the pass was read while the split of its start was selected.
PassUndisturbed == \A pl \in Yielded : ItemAt(pl).split = gen.split0

\* C5: a pass over a split of n rows with batch size b yields floor(n/b)
\* batches of b items when drop_last, else ceil(n/b) batches, all of b
\* items but a last one of n mod b when that is not zero; no index is
\* yielded twice, and without drop_last every row of the split is yielded
\* exactly once.
C5_BatchCounts ==
    LET n == gen.size0
        b == gen.batch_size
    IN  gen.pc \in {"running", "done", "failed"} =>
          /\ n = Len(partition(gen.split0))
          /\ \A p1 \in Yielded, p2 \in Yielded :
                ItemAt(p1).index = ItemAt(p2).index => p1 = p2
          /\ \A i \in 1..Len(gen.out) :
                Len(gen.out[i]) = IF i <= n \div b THEN b ELSE n % b
          /\ gen.pc = "done" =>
                /\ Len(gen.out) = IF gen.drop_last THEN n \div b
                                  ELSE CeilDiv(n, b)
                /\ ~gen.drop_last =>
                      {ItemAt(pl).index : pl \in Yielded} = 0..(n - 1)
                /\ (~gen.drop_last /\ PassUndisturbed) =>
                      /\ {ItemAt(pl).row : pl \in Yielded} =
                            Ids(partition(gen.split0))
                      /\ Cardinality(Yielded) = n

\* C5 witness: a shuffled pass over three rows in batches of two, the
\* short batch kept.
C5_Witness ==
    /\ gen.pc = "done"
    /\ gen.size0 = 3
    /\ gen.batch_size = 2
    /\ ~gen.drop_last
    /\ gen.shuffle
    /\ gen.order # <<0, 1, 2>>
    /\ Len(gen.out) = 2
    /\ Len(gen.out[2]) = 1
    /\ PassUndisturbed

\* C10 as claimed: a pass reads every item from the split that was selected
\* when it started and raises no index error, whatever set_split calls come
\* between its batches.
C10_PassKeepsItsSplit ==
    /\ PassUndisturbed
    /\ ~(gen.pc = "failed" /\ ret.op = "next" /\ ret.status = "IndexError")

\* C6: __string_processing applied to its own result returns it unchanged.
C6_Idempotent ==
    norm.pc = "twice" => norm.twice = norm.once

\* C6 witness: "A, b" with the stopword "a": lowercased, the comma deleted,
\* the stopword dropped.
C6_Witness ==
    /\ norm.pc = "twice"
    /\ norm.string = <<"A", ",", " ", "b">>
    /\ _stopwords = {<<"a">>}
    /\ norm.once = <<"b">>

\* The length of the longest text of a DataFrame with rows.
TrueMax(data) ==
    CHOOSE m \in {Len(data[i].text) : i \in 1..Len(data)} :
        \A i \in 1..Len(data) : Len(data[i].text) <= m

\* C7: the factory gets 359 when the longest text has more than 1000
\* characters and the true maximum otherwise; the object's vectorizer has
\* that bound.
C7_SeqLenBound ==
    /\ phase # "new" => factory_args.called
    /\ (factory_args.called /\ Len(text_data) > 0) =>
          factory_args.seq_len = IF TrueMax(text_data) > LenThreshold
                                 THEN LenCap ELSE TrueMax(text_data)
    /\ phase = "ready" => _vectorizer.seq_len = factory_args.seq_len

\* C7 witness: a file whose longest text has 1001 characters.
C7_Witness ==
    /\ phase = "ready"
    /\ TrueMax(text_data) = LenThreshold + 1
    /\ factory_args.seq_len = LenCap
    /\ _vectorizer.seq_len = LenCap

\* C8: concurrent __getitem__ calls on disjoint indices write no field of
\* the object, and each returns what the call returns when run alone.
C8_GetItemPure ==
    /\ [][UNCHANGED <<self_fields, text_data>>]_vars
    /\ [](\A w \in WorkerIds :
            workers[w].pc = "returned" =>
                workers[w].result = getitem(workers[w].index))

\* C8 witness: a call returned its item while another was between its
\* lines.
C8_Witness ==
    \E w \in WorkerIds, v \in WorkerIds :
        /\ workers[w].pc = "returned"
        /\ workers[w].result.status = "ok"
        /\ workers[v].pc = "l137"
        /\ workers[v].index # workers[w].index

====
